---- MODULE Spec2Model ----
(***************************************************************************)
(* Decision validation and action execution pipeline of the autodealer     *)
(* agent: BedrockAgentCore._validate_decisions (agents/bedrock_agent.py)   *)
(* and ActionExecutor (agents/action_executor.py).                         *)
(*                                                                         *)
(* Python values are encoded so that every value of one column has one     *)
(* shape: identifiers are strings with None for an absent key (dict.get    *)
(* returns None for a missing key), prices are tagged values (a number,    *)
(* None, or a non-numeric string), a decision item that is not a dict has  *)
(* mapping = FALSE, and a category of a decision set is either absent or   *)
(* a list of items.                                                        *)
(***************************************************************************)
EXTENDS Integers, Sequences, FiniteSets, TLC

\* ---------------------------------------------------------------- bounds
MaxItems == 2      \* items of one decision set, over its four categories
MaxCalls == 2      \* execute_all_actions invocations on one decision set
MaxCycles == 3     \* run_agent_cycle calls of one driver
MaxStarts == 2     \* start_autonomous_mode calls of one driver
IntervalTicks == 2 \* seconds slept before the scheduled job is due
LogCalls == 102    \* invocations in the Action Log specification
MaxLimit == 3      \* largest limit passed to get_action_history

\* ------------------------------------------------------- program constants
LOG_LIMIT == 100
P_LOW == 18000
P_V1 == 20000
P_V2 == 25000

\* ----------------------------------------------------------------- values
None == "None"
Text == "text"
Num(n) == [tag |-> "num", n |-> n]
NonePrice == [tag |-> "none", n |-> 0]
StrPrice == [tag |-> "str", n |-> 0]

VINS == {"V1", "V2"}
GHOST_VIN == "V9"
INQUIRY_IDS == {"INQ1", "INQ2"}
GHOST_INQUIRY == "INQ999"

\* bool(x) of an identifier and of a price
TruthyId(v) == v # None /\ v # ""
TruthyPrice(p) == \/ p.tag = "str"
                  \/ p.tag = "num" /\ p.n # 0
IsNumber(p) == p.tag = "num"

\* ------------------------------------------------------------ decision items
NotMappingPrice == [mapping |-> FALSE, vin |-> None, recommended_price |-> NonePrice]
PriceItems ==
    {[mapping |-> TRUE, vin |-> v, recommended_price |-> p] :
        v \in VINS \cup {GHOST_VIN, None},
        p \in {NonePrice, Num(0), Num(P_LOW), Num(0 - P_LOW), StrPrice}}
    \cup {NotMappingPrice}

NotMappingResponse == [mapping |-> FALSE, inquiry_id |-> None, response_body |-> None]
ResponseItems ==
    {[mapping |-> TRUE, inquiry_id |-> i, response_body |-> b] :
        i \in INQUIRY_IDS \cup {GHOST_INQUIRY, None}, b \in {None, Text}}
    \cup {NotMappingResponse}

PostItems ==
    {[mapping |-> m, content |-> c] : m \in {TRUE}, c \in {None, Text}}
    \cup {[mapping |-> FALSE, content |-> None]}

AlertItems == {[mapping |-> m, message |-> Text] : m \in BOOLEAN}

\* one category of a decision set: the key is absent, or it holds a list
Absent == [present |-> FALSE, items |-> << >>]
Present(s) == [present |-> TRUE, items |-> s]

\* the lists of k items; a category without items is the value of empty
CatLists(S, k, empty) ==
    IF k = 0 THEN {empty}
    ELSE {Present(s) : s \in [1..k -> S]}

LenTuples ==
    {t \in [1..4 -> 0..MaxItems] : t[1] + t[2] + t[3] + t[4] <= MaxItems}

\* every decision set of at most MaxItems items; the categories without
\* items are either all missing from the mapping or all empty lists
DecisionSets ==
    UNION {[price_adjustments : CatLists(PriceItems, t[1], e),
            customer_responses : CatLists(ResponseItems, t[2], e),
            social_media_posts : CatLists(PostItems, t[3], e),
            urgent_alerts : CatLists(AlertItems, t[4], e)] :
              t \in LenTuples, e \in {Absent, Present(<< >>)}}

NoDecisions == [price_adjustments |-> Absent, customer_responses |-> Absent,
                social_media_posts |-> Absent, urgent_alerts |-> Absent]

\* --------------------------------------------------------------- sequences
RECURSIVE SelectSeqIdx(_, _)
\* the subsequence of s at the indices in keep, in the order of s
SelectSeqIdx(s, keep) ==
    IF s = << >> THEN << >>
    ELSE LET n == Len(s)
             front == SelectSeqIdx(SubSeq(s, 1, n - 1), keep)
         IN IF n \in keep THEN Append(front, s[n]) ELSE front

\* s[-k:] for k > 0
LastK(s, k) == IF Len(s) <= k THEN s ELSE SubSeq(s, Len(s) - k + 1, Len(s))

\* ------------------------------------------------------------------ state
VARIABLES
    response,           \* the decision set as parsed from the reasoning service
    decisions,          \* the decisions dict held by the caller (mutated in place)
    valid_vins,         \* argument of _validate_decisions
    valid_inquiry_ids,  \* argument of _validate_decisions
    validate_outcome,   \* "none", "returned" or "raised"
    llm_reply,          \* what invoke_claude returned: "none", "garbage", "json"
    agent_outcome,      \* how agent_decision_loop ended: "none", "returned", "raised"
    dry_run,            \* ActionExecutor.dry_run
    inventory_df,       \* the Inventory frame passed to the executor
    inquiries_df,       \* the Inquiries frame passed to the executor
    inventory_csv,      \* data/inventory.csv as written by the executor
    inquiries_csv,      \* data/customer_inquiries.csv as written by the executor
    log_file,           \* logs/agent_actions.json
    emails,             \* recipients handed to _send_email, in order
    social_posts,       \* contents handed to _save_social_post, in order
    clock,              \* datetime.now(), one tick per invocation
    ret,                \* outcome of the latest execute_all_actions invocation
    pc,                 \* position of the caller
    is_running,         \* AutonomousAgent.is_running
    run_count,          \* AutonomousAgent.run_count
    last_run,           \* AutonomousAgent.last_run (0 is None)
    drv_pc,             \* position of the thread in start_autonomous_mode
    jobs,               \* the jobs registered with schedule.every(...).do, in
                        \* order: seconds slept since each was registered or run
    cycle,              \* the latest run_agent_cycle call: kind, outcome,
                        \* exception, outcome of the call before, frames loaded
    active,             \* run_agent_cycle frames in progress
    started,            \* run_agent_cycle calls so far
    stop_called,        \* stop() was called while the driver was running
    parent_csv,         \* ../data/inventory.csv and ../data/customer_inquiries.csv
    invocations,        \* concurrent callers of execute_all_actions, by thread
    history             \* the latest get_action_history call: limit, result

vars == <<response, decisions, valid_vins, valid_inquiry_ids, validate_outcome,
          llm_reply, agent_outcome,
          dry_run, inventory_df, inquiries_df, inventory_csv, inquiries_csv,
          log_file, emails, social_posts, clock, ret, pc,
          is_running, run_count, last_run, drv_pc, jobs, cycle,
          active, started, stop_called, parent_csv, invocations, history>>

validatorVars == <<response, valid_vins, valid_inquiry_ids, validate_outcome>>
agentVars == <<llm_reply, agent_outcome>>
driverVars == <<is_running, run_count, last_run, drv_pc, jobs,
                cycle, active, started, stop_called, parent_csv>>
raceVars == <<invocations>>
storeVars == <<inventory_df, inquiries_df, inventory_csv, inquiries_csv>>
executorVars == <<dry_run, inventory_df, inquiries_df, inventory_csv,
                  inquiries_csv, log_file, emails, social_posts, clock, ret>>

\* ------------------------------------------------------ Decision Validator
\* mutant: only checks that a vin is given
KeepAdjustment_AnyVin(adj, vins) == adj.vin # None

\* adj.get('vin') in valid_vins
KeepAdjustment(adj, vins) == adj.vin \in vins

\* mutant: also drops responses without a body
KeepResponse_NeedsBody(resp, ids) ==
    resp.inquiry_id \in ids /\ resp.response_body # None

\* resp.get('inquiry_id') in valid_inquiry_ids
KeepResponse(resp, ids) == resp.inquiry_id \in ids

\* item.get(...) on an item that is not a dict raises AttributeError
HasNonMapping(items) == \E i \in 1..Len(items) : ~items[i].mapping

FilterAdjustments(cat, vins) ==
    Present(SelectSeq(cat.items, LAMBDA adj : KeepAdjustment(adj, vins)))

FilterResponses(cat, ids) ==
    Present(SelectSeq(cat.items, LAMBDA resp : KeepResponse(resp, ids)))

\* the decisions dict after the call, and whether the call raised; the dict
\* is filtered in place, one category after the other
validate_decisions(d, vins, ids) ==
    IF d.price_adjustments.present /\ HasNonMapping(d.price_adjustments.items)
    THEN [raised |-> TRUE, decisions |-> d]
    ELSE LET d1 == IF d.price_adjustments.present
                   THEN [d EXCEPT !.price_adjustments =
                                      FilterAdjustments(@, vins)]
                   ELSE d
         IN IF d1.customer_responses.present
               /\ HasNonMapping(d1.customer_responses.items)
            THEN [raised |-> TRUE, decisions |-> d1]
            ELSE [raised |-> FALSE,
                  decisions |->
                      IF d1.customer_responses.present
                      THEN [d1 EXCEPT !.customer_responses =
                                          FilterResponses(@, ids)]
                      ELSE d1]

\* --------------------------------------------------------- Action Executor
\* a float quotient kept exact, as the fraction num / den; None otherwise
Fraction(num, den) == [tag |-> "num", num |-> num, den |-> den]
NoneFraction == [tag |-> "none", num |-> 0, den |-> 1]

\* mutant: the change is taken relative to the new price
AdjustmentPercent_OfNew(old, new) ==
    IF IsNumber(old) /\ IsNumber(new)
    THEN Fraction((new.n - old.n) * 100, new.n)
    ELSE NoneFraction

\* float((new_price - old_price) / old_price * 100)
AdjustmentPercent(old, new) ==
    IF IsNumber(old) /\ IsNumber(new)
    THEN Fraction((new.n - old.n) * 100, old.n)
    ELSE NoneFraction

\* one ActionResult; keys a result dict does not carry are None
ActionResult(type, status, error, ref, old, new, amount, exec, ts) ==
    [action_type |-> type, status |-> status, error |-> error, ref |-> ref,
     old_price |-> old, new_price |-> new, adjustment_amount |-> amount,
     adjustment_percent |-> AdjustmentPercent(old, new),
     execution_type |-> exec, timestamp |-> ts]

Failed(error, ref, ts) ==
    ActionResult(None, "failed", error, ref, NonePrice, NonePrice, NonePrice,
                 None, ts)

ExecutionType(dry) == IF dry THEN "SIMULATED" ELSE "EXECUTED"

\* the state one invocation threads through its items
Env(dry, ts, invdf, invcsv, inqdf, inqcsv, mails, posts) ==
    [dry_run |-> dry, ts |-> ts, inventory_df |-> invdf,
     inventory_csv |-> invcsv, inquiries_df |-> inqdf,
     inquiries_csv |-> inqcsv, emails |-> mails, social_posts |-> posts,
     results |-> << >>, raised |-> FALSE, send_fails |-> {}]

\* the inquiries for whose recipient _send_email raises (it creates a
\* directory and writes a file, lines 319-326): none, or the first one
TransportFailures == {{}, {"INQ1"}}

\* a transport that never raises
TransportWorks == {{}}

\* an invocation during which _send_email raises for these inquiries
WithSendFails(env, fails) == [env EXCEPT !.send_fails = fails]

AddResult(env, r) == [env EXCEPT !.results = Append(@, r)]

\* an exception that leaves the loop: the handler's own item.get(...) fails
Propagate(env) == [env EXCEPT !.raised = TRUE]

\* mutant: tests for None instead of truthiness
MissingVinOrPrice_IsNone(vin, new_price) ==
    vin = None \/ new_price.tag = "none"

\* not vin or not new_price
MissingVinOrPrice(vin, new_price) == ~TruthyId(vin) \/ ~TruthyPrice(new_price)

\* inventory_df[inventory_df['vin'] == vin].empty
VehicleEmpty(df, vin) == vin \notin DOMAIN df

\* mutant: the emptiness test is missing, vehicle.iloc[0] raises IndexError
VehicleNotFound_IndexError(env, vin) ==
    AddResult(env, Failed("IndexError", vin, env.ts))

\* the 'Vehicle not found' branch: one failed result, then continue
VehicleNotFound(env, vin) ==
    AddResult(env, Failed("Vehicle not found", vin, env.ts))

\* mutant: the row mask is dropped, every row gets the new price
WritePrice_AllRows(env, vin, new_price) ==
    IF env.dry_run THEN env
    ELSE LET df == [v \in DOMAIN env.inventory_df |->
                        [current_price |-> new_price,
                         last_price_change |-> env.ts]]
         IN [env EXCEPT !.inventory_df = df, !.inventory_csv = df]

\* mutant: the dry_run test is dropped, the frame is always written
WritePrice_IgnoreDryRun(env, vin, new_price) ==
    LET df == [env.inventory_df EXCEPT
                   ![vin] = [current_price |-> new_price,
                             last_price_change |-> env.ts]]
    IN [env EXCEPT !.inventory_df = df, !.inventory_csv = df]

\* inventory_df.loc[...] = ... and to_csv, in execute mode only.  A
\* non-numeric price is stored as given (pandas 2 upcasts the column); the
\* exception it causes is raised later, at float(new_price).
WritePrice(env, vin, new_price) ==
    IF env.dry_run THEN env
    ELSE LET df == [env.inventory_df EXCEPT
                        ![vin] = [current_price |-> new_price,
                                  last_price_change |-> env.ts]]
         IN [env EXCEPT !.inventory_df = df, !.inventory_csv = df]

\* the body of the loop of execute_price_adjustments for one item
PriceAdjustmentStep(env, adjustment) ==
    IF ~adjustment.mapping THEN Propagate(env)
    ELSE LET vin == adjustment.vin
             new_price == adjustment.recommended_price
         IN IF MissingVinOrPrice(vin, new_price)
            THEN AddResult(env, Failed("Missing VIN or price", None, env.ts))
            ELSE IF VehicleEmpty(env.inventory_df, vin)
            THEN VehicleNotFound(env, vin)
            ELSE LET old_price == env.inventory_df[vin].current_price
                     env1 == WritePrice(env, vin, new_price)
                 IN IF IsNumber(old_price) /\ IsNumber(new_price)
                    THEN AddResult(env1,
                             ActionResult("price_adjustment", "success", None,
                                 vin, old_price, new_price,
                                 Num(new_price.n - old_price.n),
                                 ExecutionType(env.dry_run), env.ts))
                    ELSE AddResult(env1, Failed("ValueError", vin, env.ts))

\* inquiries_df[inquiries_df['inquiry_id'] == inquiry_id].empty
InquiryEmpty(df, inquiry_id) == inquiry_id \notin DOMAIN df

\* mutant: the continue is missing, inquiry.iloc[0] then raises IndexError
\* and the handler appends a second result for the same item
InquiryNotFound_NoContinue(env, inquiry_id) ==
    AddResult(AddResult(env, Failed("Inquiry not found", inquiry_id, env.ts)),
              Failed("IndexError", inquiry_id, env.ts))

\* the 'Inquiry not found' branch: one failed result, then continue
InquiryNotFound(env, inquiry_id) ==
    AddResult(env, Failed("Inquiry not found", inquiry_id, env.ts))

\* mutant: a second reply to an answered inquiry reopens it as 'pending'
SendAndMark_Reopen(env, inquiry_id) ==
    LET old == env.inquiries_df[inquiry_id].status
        df == [env.inquiries_df EXCEPT ![inquiry_id].status =
                   IF old = "responded" THEN "pending" ELSE "responded"]
    IN [env EXCEPT
            !.emails = Append(@, env.inquiries_df[inquiry_id].customer_email),
            !.inquiries_df = df, !.inquiries_csv = df]

\* _send_email, then the status update and to_csv
SendAndMark(env, inquiry_id) ==
    LET df == [env.inquiries_df EXCEPT ![inquiry_id].status = "responded"]
    IN [env EXCEPT
            !.emails = Append(@, env.inquiries_df[inquiry_id].customer_email),
            !.inquiries_df = df, !.inquiries_csv = df]

TransportFailed_AfterMark(env, inquiry_id) ==
    LET df == [env.inquiries_df EXCEPT ![inquiry_id].status = "responded"]
    IN AddResult([env EXCEPT
                    !.emails = Append(@,
                        env.inquiries_df[inquiry_id].customer_email),
                    !.inquiries_df = df, !.inquiries_csv = df],
                 Failed("OSError", inquiry_id, env.ts))

\* _send_email is called (line 199) and raises: lines 206-207 are skipped
\* and the handler of lines 227-233 records the failure
TransportFailed(env, inquiry_id) ==
    AddResult([env EXCEPT
                 !.emails = Append(@,
                     env.inquiries_df[inquiry_id].customer_email)],
              Failed("OSError", inquiry_id, env.ts))

\* the body of the loop of execute_customer_responses for one item
CustomerResponseStep(env, resp) ==
    IF ~resp.mapping THEN Propagate(env)
    ELSE LET inquiry_id == resp.inquiry_id
         IN IF InquiryEmpty(env.inquiries_df, inquiry_id)
            THEN InquiryNotFound(env, inquiry_id)
            ELSE IF env.dry_run
            THEN IF resp.response_body = None
                 THEN AddResult(env, Failed("TypeError", inquiry_id, env.ts))
                 ELSE AddResult(env,
                          ActionResult("customer_response", "success", None,
                              inquiry_id, NonePrice, NonePrice, NonePrice,
                              "SIMULATED", env.ts))
            ELSE IF inquiry_id \in env.send_fails
            THEN TransportFailed(env, inquiry_id)
            ELSE AddResult(SendAndMark(env, inquiry_id),
                     ActionResult("customer_response", "success", None,
                         inquiry_id, NonePrice, NonePrice, NonePrice,
                         "EXECUTED", env.ts))

\* _save_social_post, in execute mode only
SavePost(env, content) ==
    IF env.dry_run THEN env
    ELSE [env EXCEPT !.social_posts = Append(@, content)]

\* the body of the loop of execute_social_media_posts for one item
SocialPostStep(env, post) ==
    IF ~post.mapping THEN Propagate(env)
    ELSE LET env1 == SavePost(env, post.content)
         IN IF post.content = None
            THEN AddResult(env1, Failed("TypeError", None, env.ts))
            ELSE AddResult(env1,
                     ActionResult("social_media_post", "success", None, None,
                         NonePrice, NonePrice, NonePrice,
                         ExecutionType(env.dry_run), env.ts))

\* the body of the loop of log_urgent_alerts for one item (no try block)
UrgentAlertStep(env, alert) ==
    IF ~alert.mapping THEN Propagate(env)
    ELSE AddResult(env,
             ActionResult("urgent_alert", "logged", None, None, NonePrice,
                 NonePrice, NonePrice, None, env.ts))

Step(kind, env, item) ==
    CASE kind = "price_adjustments" -> PriceAdjustmentStep(env, item)
      [] kind = "customer_responses" -> CustomerResponseStep(env, item)
      [] kind = "social_media_posts" -> SocialPostStep(env, item)
      [] kind = "urgent_alerts" -> UrgentAlertStep(env, item)

RECURSIVE Loop(_, _, _, _)
\* for item in items: ..., from index i on; stops at a propagating exception
Loop(kind, env, items, i) ==
    IF i > Len(items) \/ env.raised THEN env
    ELSE Loop(kind, Step(kind, env, items[i]), items, i + 1)

\* one of the four category functions, called on a fresh results list
RunCategory(kind, env, items) ==
    Loop(kind, [env EXCEPT !.results = << >>], items, 1)

CountStatus(results, status) ==
    Cardinality({i \in 1..Len(results) : results[i].status = status})

RunIfPresent(kind, env, cat) ==
    IF env.raised \/ ~cat.present THEN [env EXCEPT !.results = << >>]
    ELSE RunCategory(kind, env, cat.items)

ResultsOf(env, cat) == IF cat.present THEN Present(env.results) ELSE Absent

\* mutant: alerts are counted like the other categories, by status 'success'
SuccessCount_SuccessOnly(kind, results) == CountStatus(results, "success")

\* results['successful_actions'] += ... for one category
SuccessCount(kind, results) ==
    IF kind = "urgent_alerts" THEN Len(results)
    ELSE CountStatus(results, "success")

NoSummary ==
    [timestamp |-> 0, total_actions |-> 0, successful_actions |-> 0,
     failed_actions |-> 0,
     actions_by_type |-> [price_adjustments |-> Absent,
                          customer_responses |-> Absent,
                          social_media_posts |-> Absent,
                          urgent_alerts |-> Absent]]

\* mutant: keeps the first 100 entries, logs[:100]
save_action_log_KeepFirst(logs, results) ==
    LET all == Append(logs, results)
    IN IF Len(all) <= LOG_LIMIT THEN all ELSE SubSeq(all, 1, LOG_LIMIT)

\* mutant: the new summary is put in front, logs.insert(0, results)
save_action_log_Prepend(logs, results) ==
    LastK(<<results>> \o logs, LOG_LIMIT)

\* logs.append(results); logs = logs[-100:]; json.dump(logs)
save_action_log(logs, results) == LastK(Append(logs, results), LOG_LIMIT)

\* s[-k:] for k >= 0 as Python evaluates it: -0 is 0, so s[-0:] is s[0:]
SliceFromMinus(s, k) == IF k = 0 THEN s ELSE LastK(s, k)

\* ActionExecutor.get_action_history(limit): the last entries of the log
\* file, [] when the file does not exist; the file exists once a summary
\* was saved, and a saved log is never empty
get_action_history(logs, limit) ==
    IF logs = << >> THEN << >> ELSE SliceFromMinus(logs, limit)

\* execute_all_actions up to its return or the exception that leaves it:
\* the environment after the four categories, whether it raised, the summary
execute_all_actions(d, env0) ==
    LET e1 == RunIfPresent("price_adjustments", env0, d.price_adjustments)
        e2 == RunIfPresent("customer_responses", e1, d.customer_responses)
        e3 == RunIfPresent("social_media_posts", e2, d.social_media_posts)
        e4 == RunIfPresent("urgent_alerts", e3, d.urgent_alerts)
        total == Len(e1.results) + Len(e2.results) + Len(e3.results)
                     + Len(e4.results)
        successful == SuccessCount("price_adjustments", e1.results)
                      + SuccessCount("customer_responses", e2.results)
                      + SuccessCount("social_media_posts", e3.results)
                      + SuccessCount("urgent_alerts", e4.results)
    IN [raised |-> e4.raised,
        env |-> e4,
        summary |->
            IF e4.raised THEN NoSummary
            ELSE [timestamp |-> env0.ts,
                  total_actions |-> total,
                  successful_actions |-> successful,
                  failed_actions |-> total - successful,
                  actions_by_type |->
                      [price_adjustments |-> ResultsOf(e1, d.price_adjustments),
                       customer_responses |-> ResultsOf(e2, d.customer_responses),
                       social_media_posts |-> ResultsOf(e3, d.social_media_posts),
                       urgent_alerts |-> ResultsOf(e4, d.urgent_alerts)]]]

\* ------------------------------------------------------------ decision loop
\* the replies invoke_claude can hand back: None (Bedrock error, lines 46-48),
\* text that json.loads rejects, text that parses to a decision set
LLM_REPLIES == {"none", "garbage", "json"}

\* self._generate_fallback_decisions(inventory_df, inquiries_df): the class
\* BedrockAgentCore defines no such method (nor does any other file), so
\* the attribute lookup at each of the three call sites raises AttributeError
generate_fallback_decisions == [raised |-> TRUE, decisions |-> NoDecisions]

\* the body of the outer try, lines 112-133: an empty reply goes to the
\* fallback (117); a JSONDecodeError goes to the fallback (133); a parsed
\* reply goes through the validator with the identifiers of the two frames
AgentTry(reply, d, inv_df, inq_df) ==
    IF reply = "none" THEN generate_fallback_decisions
    ELSE IF reply = "garbage" THEN generate_fallback_decisions
    ELSE validate_decisions(d, DOMAIN inv_df, DOMAIN inq_df)

agent_decision_loop_Unvalidated(reply, d, inv_df, inq_df) ==
    IF reply = "json" THEN [raised |-> FALSE, decisions |-> d]
    ELSE generate_fallback_decisions

\* BedrockAgentCore.agent_decision_loop: whatever is raised inside the try,
\* also inside the JSONDecodeError handler, reaches "except Exception"
\* (135-137), whose own call of the fallback is not guarded
agent_decision_loop(reply, d, inv_df, inq_df) ==
    LET body == AgentTry(reply, d, inv_df, inq_df)
    IN IF body.raised THEN generate_fallback_decisions ELSE body

\* ------------------------------------------------------------ cycle driver
\* replies of the reasoning service a cycle is run on: an empty proposal,
\* accepted and filtered price adjustments, a customer response, an alert
\* that is a bare string (the executor raises) and an adjustment that is a
\* bare string (the validator raises)
CycleDecisionSets ==
    {NoDecisions,
     [NoDecisions EXCEPT !.price_adjustments =
         Present(<<[mapping |-> TRUE, vin |-> "V1",
                    recommended_price |-> Num(P_LOW)]>>)],
     [NoDecisions EXCEPT !.price_adjustments =
         Present(<<[mapping |-> TRUE, vin |-> "V2",
                    recommended_price |-> Num(P_LOW)],
                   [mapping |-> TRUE, vin |-> GHOST_VIN,
                    recommended_price |-> Num(P_LOW)]>>)],
     [NoDecisions EXCEPT !.customer_responses =
         Present(<<[mapping |-> TRUE, inquiry_id |-> "INQ1",
                    response_body |-> Text]>>)],
     [NoDecisions EXCEPT !.urgent_alerts =
         Present(<<[mapping |-> FALSE, message |-> Text]>>)],
     [NoDecisions EXCEPT !.price_adjustments =
         Present(<<NotMappingPrice>>)]}

\* the exception classes a cycle meets: pd.read_csv on a missing or
\* unreadable file (OSError), attribute lookups in the decision loop and in
\* the executor (AttributeError)
EXCEPTIONS == {"OSError", "AttributeError"}

Caught_OnlyOSError(exc) == exc = "OSError"

\* "except Exception as e" at line 82: both classes derive from Exception
Caught(exc) == exc \in EXCEPTIONS

\* "if not decisions" at line 52: a dict is falsy when it has no key at
\* all; other_keys stands for keys such as analysis_summary
NotDecisions(d, other_keys) ==
    /\ ~other_keys
    /\ ~d.price_adjustments.present
    /\ ~d.customer_responses.present
    /\ ~d.social_media_posts.present
    /\ ~d.urgent_alerts.present

CycleResult_CountAlways(stage, exc, outcome, env, logs, summary, loop) ==
    [stage |-> stage, exc |-> exc, outcome |-> outcome, env |-> env,
     logs |-> logs, summary |-> summary, counted |-> stage # "return",
     decisions |-> loop.decisions, loop_raised |-> loop.raised]

\* what the try block of run_agent_cycle did, and where it stopped; the
\* counters are updated only when its last two statements are reached
CycleResult(stage, exc, outcome, env, logs, summary, loop) ==
    [stage |-> stage, exc |-> exc, outcome |-> outcome, env |-> env,
     logs |-> logs, summary |-> summary, counted |-> stage = "count",
     decisions |-> loop.decisions, loop_raised |-> loop.raised]

\* lines 61-80: execute_all_actions returned (the executor has saved its
\* summary to the Action Log) or raised; the cycle is counted at lines 79-80
CycleExecuted(exe, logs, loop) ==
    IF exe.raised
    THEN CycleResult("execute", "AttributeError", "raised", exe.env, logs,
                     NoSummary, loop)
    ELSE CycleResult("count", "none", "completed", exe.env,
                     save_action_log(logs, exe.summary), exe.summary, loop)

CycleDecided_CountEmpty(loop, other_keys, env0, logs) ==
    IF loop.raised
    THEN CycleResult("decide", "AttributeError", "raised", env0, logs,
                     NoSummary, loop)
    ELSE IF NotDecisions(loop.decisions, other_keys)
    THEN CycleResult("count", "none", "no_decisions", env0, logs,
                     NoSummary, loop)
    ELSE CycleExecuted(execute_all_actions(loop.decisions, env0), logs, loop)

\* lines 46-65: agent_decision_loop returned or raised; the early return
\* of lines 52-54; the call of the executor
CycleDecided(loop, other_keys, env0, logs) ==
    IF loop.raised
    THEN CycleResult("decide", "AttributeError", "raised", env0, logs,
                     NoSummary, loop)
    ELSE IF NotDecisions(loop.decisions, other_keys)
    THEN CycleResult("return", "none", "no_decisions", env0, logs,
                     NoSummary, loop)
    ELSE CycleExecuted(execute_all_actions(loop.decisions, env0), logs, loop)

\* the try block of run_agent_cycle, lines 33-80, up to the point where it
\* returns or raises: the three pd.read_csv calls (35-38) read ../data
CycleTry(load_ok, reply, d, other_keys, env0, logs) ==
    IF ~load_ok
    THEN CycleResult("load", "OSError", "raised", env0, logs, NoSummary,
                     [raised |-> FALSE, decisions |-> NoDecisions])
    ELSE CycleDecided(agent_decision_loop(reply, d, env0.inventory_df,
                                          env0.inquiries_df),
                      other_keys, env0, logs)

\* the handler of lines 82-85 on what the try block did: an exception it
\* does not catch leaves run_agent_cycle ("escaped")
CycleHandler(try) ==
    [try EXCEPT !.outcome = IF @ # "raised" THEN @
                            ELSE IF Caught(try.exc) THEN "caught"
                            ELSE "escaped"]

\* AutonomousAgent.run_agent_cycle on the frames read from ../data; the
\* executor it calls writes data/inventory.csv and
\* data/customer_inquiries.csv under the same working directory (lines 128
\* and 207 of action_executor.py), a directory taken to exist
run_agent_cycle(load_ok, reply, d, other_keys, env0, logs) ==
    CycleHandler(CycleTry(load_ok, reply, d, other_keys, env0, logs))

\* ------------------------------------------------------------ initial state
InitialInventory ==
    [v \in VINS |->
        [current_price |-> IF v = "V1" THEN Num(P_V1) ELSE Num(P_V2),
         last_price_change |-> 0]]

InitialInquiries ==
    [i \in INQUIRY_IDS |->
        [customer_email |-> IF i = "INQ1" THEN "a@example.com"
                            ELSE "b@example.com",
         status |-> IF i = "INQ1" THEN "new" ELSE "pending"]]

\* no get_action_history call yet
NoHistory == [called |-> FALSE, limit |-> 0, entries |-> << >>]

NoReturn == [outcome |-> "none", summary |-> NoSummary, send_fails |-> {}]

\* two callers at a time: request threads of app.py, driver processes
THREADS == {1, 2}

\* a thread that has not called yet
NoInvocation ==
    [pc |-> "idle", caller |-> "none", dry_run |-> TRUE,
     decisions |-> NoDecisions, snapshot |-> InitialInventory,
     inventory_df |-> InitialInventory, inquiries_df |-> InitialInquiries,
     raised |-> FALSE, summary |-> NoSummary, logs |-> << >>]

\* no run_agent_cycle call yet
NoCycle == [kind |-> "none", outcome |-> "none", exc |-> "none",
            previous |-> "none",
            inventory |-> InitialInventory, inquiries |-> InitialInquiries]

Init ==
    /\ response = NoDecisions
    /\ decisions = NoDecisions
    /\ valid_vins = {}
    /\ valid_inquiry_ids = {}
    /\ validate_outcome = "none"
    /\ llm_reply = "none"
    /\ agent_outcome = "none"
    /\ dry_run \in BOOLEAN
    /\ inventory_df = InitialInventory
    /\ inquiries_df = InitialInquiries
    /\ inventory_csv = InitialInventory
    /\ inquiries_csv = InitialInquiries
    /\ log_file = << >>
    /\ emails = << >>
    /\ social_posts = << >>
    /\ clock = 1
    /\ ret = NoReturn
    /\ pc = "idle"
    /\ is_running = FALSE
    /\ run_count = 0
    /\ last_run = 0
    /\ drv_pc = "idle"
    /\ jobs = << >>
    /\ cycle = NoCycle
    /\ active = 0
    /\ started = 0
    /\ stop_called = FALSE
    /\ parent_csv = [inventory |-> InitialInventory,
                     inquiries |-> InitialInquiries]
    /\ invocations = [t \in THREADS |-> NoInvocation]
    /\ history = NoHistory

\* ------------------------------------------------------------------ actions
\* the caller obtains a decision set (the parsed reply of the reasoning
\* service, or any mapping handed to the executor)
ObtainDecisions(D) ==
    /\ pc = "idle"
    /\ \E d \in D :
        /\ response' = d
        /\ decisions' = d
    /\ pc' = "decided"
    /\ UNCHANGED <<valid_vins, valid_inquiry_ids, validate_outcome>>
    /\ UNCHANGED agentVars
    /\ UNCHANGED driverVars
    /\ UNCHANGED raceVars
    /\ UNCHANGED history
    /\ UNCHANGED executorVars

\* agent_decision_loop lines 125-126: the validator is called on the parsed
\* reply with the identifier sets of its caller
ValidateDecisions ==
    /\ pc = "decided"
    /\ validate_outcome = "none"
    /\ \E vins \in SUBSET VINS, ids \in SUBSET INQUIRY_IDS :
        LET out == validate_decisions(decisions, vins, ids)
        IN /\ valid_vins' = vins
           /\ valid_inquiry_ids' = ids
           /\ decisions' = out.decisions
           /\ validate_outcome' = IF out.raised THEN "raised" ELSE "returned"
    /\ UNCHANGED <<response, pc>>
    /\ UNCHANGED agentVars
    /\ UNCHANGED driverVars
    /\ UNCHANGED raceVars
    /\ UNCHANGED history
    /\ UNCHANGED executorVars

\* one call of agent_decision_loop on the frames the caller holds
AgentDecisionLoop ==
    /\ pc = "idle"
    /\ \E reply \in LLM_REPLIES, d \in DecisionSets :
        LET parsed == IF reply = "json" THEN d ELSE NoDecisions
            out == agent_decision_loop(reply, parsed, inventory_df,
                                       inquiries_df)
        IN /\ llm_reply' = reply
           /\ response' = parsed
           /\ decisions' = out.decisions
           /\ valid_vins' = IF reply = "json" THEN DOMAIN inventory_df
                            ELSE valid_vins
           /\ valid_inquiry_ids' = IF reply = "json" THEN DOMAIN inquiries_df
                                   ELSE valid_inquiry_ids
           /\ validate_outcome' =
                 IF reply # "json" THEN "none"
                 ELSE IF validate_decisions(parsed, DOMAIN inventory_df,
                                            DOMAIN inquiries_df).raised
                      THEN "raised" ELSE "returned"
           /\ agent_outcome' = IF out.raised THEN "raised" ELSE "returned"
           /\ pc' = IF out.raised THEN "failed" ELSE "decided"
    /\ UNCHANGED executorVars
    /\ UNCHANGED driverVars
    /\ UNCHANGED raceVars
    /\ UNCHANGED history

\* ActionExecutor.execute_all_actions(decisions, inventory_df, inquiries_df)
ExecuteAllActions(F) ==
    /\ pc = "decided"
    /\ \E fails \in F :
       LET out == execute_all_actions(decisions,
                      WithSendFails(
                          Env(dry_run, clock, inventory_df, inventory_csv,
                              inquiries_df, inquiries_csv, emails,
                              social_posts), fails))
       IN /\ inventory_df' = out.env.inventory_df
          /\ inventory_csv' = out.env.inventory_csv
          /\ inquiries_df' = out.env.inquiries_df
          /\ inquiries_csv' = out.env.inquiries_csv
          /\ emails' = out.env.emails
          /\ social_posts' = out.env.social_posts
          /\ log_file' = IF out.raised THEN log_file
                         ELSE save_action_log(log_file, out.summary)
          /\ ret' = [outcome |-> IF out.raised THEN "raised" ELSE "returned",
                     summary |-> out.summary, send_fails |-> fails]
    /\ clock' = clock + 1
    /\ UNCHANGED <<response, decisions, valid_vins, valid_inquiry_ids,
                   validate_outcome, dry_run, pc>>
    /\ UNCHANGED agentVars
    /\ UNCHANGED driverVars
    /\ UNCHANGED raceVars
    /\ UNCHANGED history

\* the executor on any decision set, each set run up to MaxCalls times
Next ==
    \/ ObtainDecisions(DecisionSets)
    \/ clock <= MaxCalls /\ ExecuteAllActions(TransportFailures)

Spec == Init /\ [][Next]_vars

\* the validator on any decision set and any pair of identifier sets
NextValidate ==
    \/ ObtainDecisions(DecisionSets)
    \/ ValidateDecisions

SpecValidate == Init /\ [][NextValidate]_vars

StartAutonomousMode_ScheduleFirst ==
    /\ drv_pc = "idle"
    /\ is_running' = TRUE
    /\ drv_pc' = "schedule"
    /\ UNCHANGED <<run_count, last_run, jobs, cycle, active,
                   started, stop_called, parent_csv>>
    /\ UNCHANGED <<response, decisions, valid_vins, valid_inquiry_ids,
                   validate_outcome, pc>>
    /\ UNCHANGED agentVars
    /\ UNCHANGED executorVars
    /\ UNCHANGED raceVars
    /\ UNCHANGED history

\* start_autonomous_mode line 98, before the immediate cycle; the method
\* can be called again once an earlier call has left its loop
StartAutonomousMode ==
    /\ drv_pc \in {"idle", "done"}
    /\ Len(jobs) < MaxStarts
    /\ is_running' = TRUE
    /\ stop_called' = FALSE
    /\ drv_pc' = "immediate"
    /\ UNCHANGED <<run_count, last_run, jobs, cycle, active, started,
                   parent_csv>>
    /\ UNCHANGED <<response, decisions, valid_vins, valid_inquiry_ids,
                   validate_outcome, pc>>
    /\ UNCHANGED agentVars
    /\ UNCHANGED executorVars
    /\ UNCHANGED raceVars
    /\ UNCHANGED history

\* some job is registered with the default scheduler of the schedule module
scheduled == jobs # << >>

JobDue_OneShot ==
    /\ \E j \in 1..Len(jobs) : jobs[j] >= IntervalTicks
    /\ cycle.kind = "immediate"

\* a job of schedule.every(interval_minutes).minutes is due
JobDue == \E j \in 1..Len(jobs) : jobs[j] >= IntervalTicks

\* the due job run_pending runs next: the earliest registered one
FirstDue ==
    CHOOSE j \in 1..Len(jobs) :
        /\ jobs[j] >= IntervalTicks
        /\ \A i \in 1..(j - 1) : jobs[i] < IntervalTicks

\* run_pending has another due job to run after the one that returned
MoreDue == \E j \in 1..Len(jobs) : j # FirstDue /\ jobs[j] >= IntervalTicks

JobRuns_OnTimerThread(at) == at \in {"pending", "cycle", "sleep", "test"}

\* schedule.run_pending() runs a due job on the thread that calls it, line 108
JobRuns(at) == at = "pending"

\* run_agent_cycle is entered (lines 28-31): called directly at line 101,
\* or by schedule.run_pending() at line 108 when the job is due
EnterCycle ==
    /\ \/ /\ drv_pc = "immediate"
          /\ cycle' = [cycle EXCEPT !.kind = "immediate",
                                    !.outcome = "running", !.exc = "none",
                                    !.previous = cycle.outcome]
       \/ /\ JobRuns(drv_pc)
          /\ JobDue
          /\ cycle' = [cycle EXCEPT !.kind = "scheduled",
                                    !.outcome = "running", !.exc = "none",
                                    !.previous = cycle.outcome]
    /\ drv_pc' = "cycle"
    /\ active' = active + 1
    /\ started' = started + 1
    /\ UNCHANGED <<is_running, run_count, last_run, jobs,
                   stop_called, parent_csv>>
    /\ UNCHANGED <<response, decisions, valid_vins, valid_inquiry_ids,
                   validate_outcome, pc>>
    /\ UNCHANGED agentVars
    /\ UNCHANGED executorVars
    /\ UNCHANGED raceVars
    /\ UNCHANGED history

\* what one run_agent_cycle call leaves behind, out being its result
CycleEffect(out, load_ok, reply, parsed) ==
    /\ cycle' = [cycle EXCEPT
                    !.outcome = out.outcome, !.exc = out.exc,
                    !.inventory = IF load_ok THEN parent_csv.inventory ELSE @,
                    !.inquiries = IF load_ok THEN parent_csv.inquiries ELSE @]
    /\ llm_reply' = IF load_ok THEN reply ELSE llm_reply
    /\ agent_outcome' = IF ~load_ok THEN agent_outcome
                        ELSE IF out.loop_raised THEN "raised" ELSE "returned"
    /\ response' = IF load_ok THEN parsed ELSE response
    /\ decisions' = IF load_ok THEN out.decisions ELSE decisions
    /\ valid_vins' = IF load_ok /\ reply = "json"
                     THEN DOMAIN parent_csv.inventory ELSE valid_vins
    /\ valid_inquiry_ids' = IF load_ok /\ reply = "json"
                            THEN DOMAIN parent_csv.inquiries
                            ELSE valid_inquiry_ids
    /\ validate_outcome' = IF ~(load_ok /\ reply = "json")
                           THEN validate_outcome
                           ELSE IF out.loop_raised THEN "raised"
                           ELSE "returned"
    /\ inventory_df' = IF load_ok THEN out.env.inventory_df ELSE inventory_df
    /\ inquiries_df' = IF load_ok THEN out.env.inquiries_df ELSE inquiries_df
    /\ inventory_csv' = out.env.inventory_csv
    /\ inquiries_csv' = out.env.inquiries_csv
    /\ emails' = out.env.emails
    /\ social_posts' = out.env.social_posts
    /\ log_file' = out.logs
    /\ ret' = IF out.stage \notin {"execute", "count"} THEN ret
              ELSE [outcome |-> IF out.stage = "count" THEN "returned"
                                ELSE "raised",
                    summary |-> out.summary, send_fails |-> {}]
    /\ run_count' = IF out.counted THEN run_count + 1 ELSE run_count
    /\ last_run' = IF out.counted THEN clock ELSE last_run
    /\ drv_pc' = IF out.outcome = "escaped" THEN "crashed"
                 ELSE IF cycle.kind = "immediate" THEN "schedule"
                 ELSE IF MoreDue THEN "pending"
                 ELSE "sleep"

\* run_agent_cycle lines 33-85, then the return to start_autonomous_mode
\* (line 101) or to schedule.run_pending (line 108), which sets the job's
\* next run
RunAgentCycle ==
    /\ drv_pc = "cycle"
    /\ \E load_ok \in BOOLEAN, reply \in LLM_REPLIES,
          d \in CycleDecisionSets, other_keys \in BOOLEAN :
          CycleEffect(run_agent_cycle(load_ok, reply,
                          IF reply = "json" THEN d ELSE NoDecisions,
                          other_keys,
                          Env(dry_run, clock, parent_csv.inventory,
                              inventory_csv, parent_csv.inquiries,
                              inquiries_csv, emails, social_posts),
                          log_file),
                      load_ok, reply,
                      IF reply = "json" THEN d ELSE NoDecisions)
    /\ jobs' = IF cycle.kind = "scheduled" THEN [jobs EXCEPT ![FirstDue] = 0]
               ELSE jobs
    /\ active' = active - 1
    /\ clock' = clock + 1
    /\ UNCHANGED <<is_running, started, stop_called, parent_csv, dry_run, pc>>
    /\ UNCHANGED raceVars
    /\ UNCHANGED history

\* schedule.every(interval_minutes).minutes.do(self.run_agent_cycle), line 104
ScheduleJob ==
    /\ drv_pc = "schedule"
    /\ jobs' = Append(jobs, 0)
    /\ drv_pc' = "test"
    /\ UNCHANGED <<is_running, run_count, last_run, cycle, active, started,
                   stop_called, parent_csv>>
    /\ UNCHANGED <<response, decisions, valid_vins, valid_inquiry_ids,
                   validate_outcome, pc>>
    /\ UNCHANGED agentVars
    /\ UNCHANGED executorVars
    /\ UNCHANGED raceVars
    /\ UNCHANGED history

\* "while self.is_running", line 107
TestRunning ==
    /\ drv_pc = "test"
    /\ drv_pc' = IF is_running THEN "pending" ELSE "done"
    /\ UNCHANGED <<is_running, run_count, last_run, jobs, cycle,
                   active, started, stop_called, parent_csv>>
    /\ UNCHANGED <<response, decisions, valid_vins, valid_inquiry_ids,
                   validate_outcome, pc>>
    /\ UNCHANGED agentVars
    /\ UNCHANGED executorVars
    /\ UNCHANGED raceVars
    /\ UNCHANGED history

\* schedule.run_pending() with no job due, line 108
RunPendingNothing ==
    /\ drv_pc = "pending"
    /\ ~JobDue
    /\ drv_pc' = "sleep"
    /\ UNCHANGED <<is_running, run_count, last_run, jobs, cycle,
                   active, started, stop_called, parent_csv>>
    /\ UNCHANGED <<response, decisions, valid_vins, valid_inquiry_ids,
                   validate_outcome, pc>>
    /\ UNCHANGED agentVars
    /\ UNCHANGED executorVars
    /\ UNCHANGED raceVars
    /\ UNCHANGED history

\* time.sleep(1), line 109
Sleep ==
    /\ drv_pc = "sleep"
    /\ jobs' = [j \in DOMAIN jobs |->
                   IF jobs[j] < IntervalTicks THEN jobs[j] + 1 ELSE jobs[j]]
    /\ drv_pc' = "test"
    /\ UNCHANGED <<is_running, run_count, last_run, cycle, active, started,
                   stop_called, parent_csv>>
    /\ UNCHANGED <<response, decisions, valid_vins, valid_inquiry_ids,
                   validate_outcome, pc>>
    /\ UNCHANGED agentVars
    /\ UNCHANGED executorVars
    /\ UNCHANGED raceVars
    /\ UNCHANGED history

\* AutonomousAgent.stop(), lines 111-114, called from a handler or another
\* thread at any point of the driver
Stop ==
    /\ drv_pc \notin {"idle", "done", "crashed"}
    /\ ~stop_called
    /\ is_running' = FALSE
    /\ stop_called' = is_running
    /\ UNCHANGED <<run_count, last_run, drv_pc, jobs, cycle,
                   active, started, parent_csv>>
    /\ UNCHANGED <<response, decisions, valid_vins, valid_inquiry_ids,
                   validate_outcome, pc>>
    /\ UNCHANGED agentVars
    /\ UNCHANGED executorVars
    /\ UNCHANGED raceVars
    /\ UNCHANGED history

\* the thread of start_autonomous_mode, at most MaxCycles cycles
DriverStep ==
    \/ StartAutonomousMode
    \/ started < MaxCycles /\ EnterCycle
    \/ RunAgentCycle
    \/ ScheduleJob
    \/ TestRunning
    \/ RunPendingNothing
    \/ Sleep

NextDriver ==
    \/ DriverStep
    \/ Stop

SpecDriver == Init /\ [][NextDriver]_vars

\* the driver thread keeps being scheduled by the interpreter
SpecDriverFair == SpecDriver /\ WF_vars(DriverStep)

\* ------------------------------------------------- concurrent invocations
\* what the decision loop returned to the concurrent callers: accepted
\* adjustments of either vehicle, a response, an alert that is a bare string
RaceDecisionSets ==
    {[NoDecisions EXCEPT !.price_adjustments =
         Present(<<[mapping |-> TRUE, vin |-> "V1",
                    recommended_price |-> Num(P_LOW)]>>)],
     [NoDecisions EXCEPT !.price_adjustments =
         Present(<<[mapping |-> TRUE, vin |-> "V2",
                    recommended_price |-> Num(P_LOW)]>>)],
     [NoDecisions EXCEPT !.customer_responses =
         Present(<<[mapping |-> TRUE, inquiry_id |-> "INQ1",
                    response_body |-> Text]>>)],
     [NoDecisions EXCEPT !.urgent_alerts =
         Present(<<[mapping |-> FALSE, message |-> Text]>>)]}

\* the state of the sequential callers and of the driver
sequentialVars ==
    <<response, decisions, valid_vins, valid_inquiry_ids, validate_outcome,
      llm_reply, agent_outcome, dry_run, inventory_df, inquiries_df, ret, pc,
      is_running, run_count, last_run, drv_pc, jobs, cycle,
      active, started, stop_called, parent_csv>>

RaceLoad_ManualLive(t) ==
    /\ invocations[t].pc = "idle"
    /\ \E caller \in {"manual", "cycle"}, dry \in BOOLEAN,
          d \in RaceDecisionSets :
        /\ invocations' = [invocations EXCEPT ![t] =
              [pc |-> "loaded", caller |-> caller, dry_run |-> dry,
               decisions |-> d,
               snapshot |-> IF caller = "manual" THEN inventory_csv
                            ELSE parent_csv.inventory,
               inventory_df |-> IF caller = "manual" THEN inventory_csv
                                ELSE parent_csv.inventory,
               inquiries_df |-> IF caller = "manual" THEN inquiries_csv
                                ELSE parent_csv.inquiries,
               raised |-> FALSE, summary |-> NoSummary, logs |-> << >>]]
    /\ UNCHANGED <<inventory_csv, inquiries_csv, log_file, emails,
                   social_posts, clock>>
    /\ UNCHANGED sequentialVars
    /\ UNCHANGED history

\* a caller loads its own frames and obtains its decisions: run_agent_now
\* of app.py reads data/ and uses the executor built with dry_run=True
\* (app.py lines 17, 22-24, 254-261); run_agent_cycle of a driver process
\* reads ../data in either mode (autonomous_scheduler.py lines 36-50)
RaceLoad(t) ==
    /\ invocations[t].pc = "idle"
    /\ \E caller \in {"manual", "cycle"}, dry \in BOOLEAN,
          d \in RaceDecisionSets :
        /\ caller = "manual" => dry
        /\ invocations' = [invocations EXCEPT ![t] =
              [pc |-> "loaded", caller |-> caller, dry_run |-> dry,
               decisions |-> d,
               snapshot |-> IF caller = "manual" THEN inventory_csv
                            ELSE parent_csv.inventory,
               inventory_df |-> IF caller = "manual" THEN inventory_csv
                                ELSE parent_csv.inventory,
               inquiries_df |-> IF caller = "manual" THEN inquiries_csv
                                ELSE parent_csv.inquiries,
               raised |-> FALSE, summary |-> NoSummary, logs |-> << >>]]
    /\ UNCHANGED <<inventory_csv, inquiries_csv, log_file, emails,
                   social_posts, clock>>
    /\ UNCHANGED sequentialVars
    /\ UNCHANGED history

\* what the four categories of one invocation leave behind: the caller's
\* frames, the shared files, the summary to be saved
RaceExecuted(t, out) ==
    /\ invocations' = [invocations EXCEPT ![t] =
          [@ EXCEPT !.pc = IF out.raised THEN "done" ELSE "executed",
                    !.inventory_df = out.env.inventory_df,
                    !.inquiries_df = out.env.inquiries_df,
                    !.raised = out.raised,
                    !.summary = out.summary]]
    /\ inventory_csv' = out.env.inventory_csv
    /\ inquiries_csv' = out.env.inquiries_csv
    /\ emails' = out.env.emails
    /\ social_posts' = out.env.social_posts

RaceExecute_Reload(t) ==
    /\ invocations[t].pc = "loaded"
    /\ RaceExecuted(t, execute_all_actions(invocations[t].decisions,
            Env(invocations[t].dry_run, clock, inventory_csv, inventory_csv,
                invocations[t].inquiries_df, inquiries_csv, emails,
                social_posts)))
    /\ clock' = clock + 1
    /\ UNCHANGED log_file
    /\ UNCHANGED sequentialVars
    /\ UNCHANGED history

\* execute_all_actions lines 28-75 on the caller's own frames: every
\* accepted adjustment writes the caller's whole frame to data/inventory.csv
RaceExecute(t) ==
    /\ invocations[t].pc = "loaded"
    /\ RaceExecuted(t, execute_all_actions(invocations[t].decisions,
            Env(invocations[t].dry_run, clock, invocations[t].inventory_df,
                inventory_csv, invocations[t].inquiries_df, inquiries_csv,
                emails, social_posts)))
    /\ clock' = clock + 1
    /\ UNCHANGED log_file
    /\ UNCHANGED sequentialVars
    /\ UNCHANGED history

\* _save_action_log lines 345-350: the whole log file is read
RaceLogRead(t) ==
    /\ invocations[t].pc = "executed"
    /\ invocations' = [invocations EXCEPT ![t] =
          [@ EXCEPT !.pc = "read", !.logs = log_file]]
    /\ UNCHANGED <<inventory_csv, inquiries_csv, log_file, emails,
                   social_posts, clock>>
    /\ UNCHANGED sequentialVars
    /\ UNCHANGED history

RaceLogWrite_Atomic(t) ==
    /\ invocations[t].pc = "read"
    /\ log_file' = save_action_log(log_file, invocations[t].summary)
    /\ invocations' = [invocations EXCEPT ![t] = [@ EXCEPT !.pc = "done"]]
    /\ UNCHANGED <<inventory_csv, inquiries_csv, emails, social_posts, clock>>
    /\ UNCHANGED sequentialVars
    /\ UNCHANGED history

\* _save_action_log lines 352-360: the summary is appended to the list that
\* was read, the list is cut to its last LOG_LIMIT entries and the file is
\* rewritten with it
RaceLogWrite(t) ==
    /\ invocations[t].pc = "read"
    /\ log_file' = save_action_log(invocations[t].logs,
                                   invocations[t].summary)
    /\ invocations' = [invocations EXCEPT ![t] = [@ EXCEPT !.pc = "done"]]
    /\ UNCHANGED <<inventory_csv, inquiries_csv, emails, social_posts, clock>>
    /\ UNCHANGED sequentialVars
    /\ UNCHANGED history

\* two callers, each running one invocation, interleaved at these steps
NextRace ==
    \E t \in THREADS :
        \/ RaceLoad(t)
        \/ RaceExecute(t)
        \/ RaceLogRead(t)
        \/ RaceLogWrite(t)

SpecRace == Init /\ [][NextRace]_vars

\* the decision loop feeding the executor, as app.py and __main__ chain them
NextAgent ==
    \/ AgentDecisionLoop
    \/ clock <= MaxCalls /\ ExecuteAllActions(TransportWorks)

SpecAgent == Init /\ [][NextAgent]_vars

\* the Action Log over more than LOG_LIMIT invocations
LogDecisionSets ==
    {NoDecisions,
     [NoDecisions EXCEPT !.price_adjustments =
         Present(<<[mapping |-> TRUE, vin |-> "V1",
                    recommended_price |-> Num(P_LOW)],
                   [mapping |-> TRUE, vin |-> GHOST_VIN,
                    recommended_price |-> Num(P_LOW)]>>)],
     [NoDecisions EXCEPT !.customer_responses =
         Present(<<[mapping |-> TRUE, inquiry_id |-> "INQ1",
                    response_body |-> Text]>>)],
     [NoDecisions EXCEPT !.urgent_alerts =
         Present(<<[mapping |-> FALSE, message |-> Text]>>)]}

NextLog ==
    \/ ObtainDecisions(LogDecisionSets)
    \/ clock <= LogCalls /\ ExecuteAllActions(TransportWorks)

SpecLog == Init /\ [][NextLog]_vars

\* a route of app.py reads the Action Log (app.py lines 45, 60, 80)
GetActionHistory ==
    /\ \E limit \in 0..MaxLimit :
          history' = [called |-> TRUE, limit |-> limit,
                      entries |-> get_action_history(log_file, limit)]
    /\ UNCHANGED <<decisions, pc, invocations>>
    /\ UNCHANGED validatorVars
    /\ UNCHANGED agentVars
    /\ UNCHANGED executorVars
    /\ UNCHANGED driverVars

\* the executor and a reader of its Action Log
NextHistory ==
    \/ ObtainDecisions(LogDecisionSets)
    \/ clock <= MaxCalls /\ ExecuteAllActions(TransportWorks)
    \/ GetActionHistory

SpecHistory == Init /\ [][NextHistory]_vars

\* ================================================================== claims
Items(cat) == cat.items
AllIn(items, field, S) == \A i \in 1..Len(items) : items[i][field] \in S

\* C1: whenever _validate_decisions returns, no price_adjustments item of its
\* result has a vin outside valid_vins and no customer_responses item has an
\* inquiry_id outside valid_inquiry_ids.
C1_NoInvalidReference ==
    validate_outcome = "returned" =>
        /\ AllIn(Items(decisions.price_adjustments), "vin", valid_vins)
        /\ AllIn(Items(decisions.customer_responses), "inquiry_id",
                 valid_inquiry_ids)

\* a call that dropped a hallucinated vin and kept a valid one, and likewise
\* for inquiry ids
C1_Witness ==
    /\ validate_outcome = "returned"
    /\ Len(Items(response.price_adjustments)) = 2
    /\ Len(Items(decisions.price_adjustments)) = 1
    /\ \E i \in 1..2 : response.price_adjustments.items[i].vin = GHOST_VIN
    /\ valid_vins = VINS

\* C2: _validate_decisions is an exact filter: each filtered list is the input
\* list without the items whose identifier is outside the supplied set, in
\* the original order and never longer than the input; social_media_posts
\* and urgent_alerts come back identical to the input.
ExpectedFilter(cat, field, S) ==
    IF cat.present
    THEN Present(SelectSeqIdx(cat.items,
             {i \in 1..Len(cat.items) : cat.items[i][field] \in S}))
    ELSE Absent

C2_ExactFilter ==
    validate_outcome = "returned" =>
        /\ decisions.price_adjustments =
               ExpectedFilter(response.price_adjustments, "vin", valid_vins)
        /\ decisions.customer_responses =
               ExpectedFilter(response.customer_responses, "inquiry_id",
                              valid_inquiry_ids)
        /\ Len(Items(decisions.price_adjustments))
               <= Len(Items(response.price_adjustments))
        /\ Len(Items(decisions.customer_responses))
               <= Len(Items(response.customer_responses))
        /\ decisions.social_media_posts = response.social_media_posts
        /\ decisions.urgent_alerts = response.urgent_alerts

\* a call that kept one response, dropped another and passed a post through
C2_Witness ==
    /\ validate_outcome = "returned"
    /\ Len(Items(response.customer_responses)) = 2
    /\ response.customer_responses.items[1].inquiry_id = GHOST_INQUIRY
    /\ response.customer_responses.items[2].inquiry_id = "INQ2"
    /\ decisions.customer_responses.items = <<response.customer_responses.items[2]>>
    /\ valid_inquiry_ids = {"INQ2"}

\* ------------------------------------------------- executor claims, helpers
\* a step of execute_all_actions (the only action that advances the clock)
CallStep == clock' = clock + 1

SetMax(S) == CHOOSE x \in S : \A y \in S : y <= x
SetMin(S) == CHOOSE x \in S : \A y \in S : x <= y

\* the items an invocation reaches: those before the first item whose
\* exception leaves the loop
Reached(items) ==
    LET bad == {i \in 1..Len(items) : ~items[i].mapping}
    IN IF bad = {} THEN 1..Len(items) ELSE 1..(SetMin(bad) - 1)

MissingItem(it) ==
    it.mapping /\ (it.vin \in {None, ""} \/ it.recommended_price = NonePrice
                   \/ it.recommended_price = Num(0))

\* the reached price items that name v and carry a truthy price
Targets(items, v) ==
    {k \in Reached(items) : items[k].vin = v /\ ~MissingItem(items[k])}

PriceResults(r) == r.summary.actions_by_type.price_adjustments.items
ResponseResults(r) == r.summary.actions_by_type.customer_responses.items

\* C3: in each of the four categories an unexpected exception raised while
\* one item is processed (an item that is not a mapping included) never
\* leaves the batch: the invocation returns one result per item, a 'failed'
\* one for the offending item.
C3_ItemBoundary ==
    ret.outcome # "none" =>
        /\ ret.outcome = "returned"
        /\ \A kind \in {"price_adjustments", "customer_responses",
                        "social_media_posts", "urgent_alerts"} :
              LET items == decisions[kind].items
                  results == ret.summary.actions_by_type[kind].items
              IN /\ Len(results) = Len(items)
                 /\ \A i \in 1..Len(items) :
                        ~items[i].mapping => results[i].status = "failed"

\* C4: in execute mode, after an invocation every InventoryRecord named by an
\* accepted price adjustment carries the recommended price of the last such
\* item and a new last_price_change; every other InventoryRecord is
\* unchanged, and so is every InquiryRecord no customer response names.
C4_ExecuteFrame ==
    [][(CallStep /\ ~dry_run) =>
        LET items == decisions.price_adjustments.items
            resps == decisions.customer_responses.items
        IN /\ DOMAIN inventory_df' = DOMAIN inventory_df
           /\ \A v \in DOMAIN inventory_df :
                LET T == Targets(items, v)
                IN IF T = {} THEN inventory_df'[v] = inventory_df[v]
                   ELSE /\ inventory_df'[v].current_price =
                               items[SetMax(T)].recommended_price
                        /\ inventory_df'[v].last_price_change = clock
                        /\ inventory_df'[v].last_price_change #
                               inventory_df[v].last_price_change
           /\ inventory_csv' = inventory_df'
           /\ \A i \in DOMAIN inquiries_df :
                (\A k \in 1..Len(resps) : resps[k].inquiry_id # i)
                    => inquiries_df'[i] = inquiries_df[i]
    ]_vars

\* V1 repriced by an executed adjustment, V2 and the inquiries untouched
C4_Witness ==
    /\ ~dry_run
    /\ ret.outcome = "returned"
    /\ Len(PriceResults(ret)) = 1
    /\ PriceResults(ret)[1].status = "success"
    /\ inventory_df["V1"] = [current_price |-> Num(P_LOW),
                             last_price_change |-> 1]
    /\ inventory_df["V2"] = InitialInventory["V2"]
    /\ inquiries_df = InitialInquiries

\* C5: in simulate mode an invocation leaves the Inventory and Inquiries
\* tables (frames and files) unchanged, and a second invocation on the same
\* decision set and store returns the same total_actions and
\* successful_actions as the first.
C5_SimulateIdempotent ==
    [][(CallStep /\ dry_run) =>
        /\ storeVars' = storeVars
        /\ ret.outcome = "returned" =>
              /\ decisions' = decisions
              /\ ret'.outcome = "returned"
              /\ ret'.summary.total_actions = ret.summary.total_actions
              /\ ret'.summary.successful_actions =
                     ret.summary.successful_actions
        /\ ret.outcome = "raised" => ret'.outcome = "raised"
    ]_vars

\* two simulated invocations on a set with an accepted price adjustment
C5_Witness ==
    /\ dry_run
    /\ clock = 3
    /\ ret.outcome = "returned"
    /\ ret.summary.total_actions = 2
    /\ ret.summary.successful_actions = 1
    /\ Len(log_file) = 2
    /\ log_file[1].successful_actions = 1
    /\ \E i \in 1..Len(PriceResults(ret)) :
          PriceResults(ret)[i].execution_type = "SIMULATED"

\* C6: the Action Log never holds more than 100 summaries; it holds all of
\* them while at most 100 were appended, and afterwards exactly the 100 most
\* recently appended ones in append order.  (In SpecLog every invocation of
\* a behaviour returns or every one raises, so the appended summaries are
\* those stamped 1 .. clock - 1.)
C6_BoundedLog ==
    /\ Len(log_file) <= LOG_LIMIT
    /\ ret.outcome = "raised" => log_file = << >>
    /\ ret.outcome # "raised" =>
          LET n == clock - 1
          IN /\ Len(log_file) = (IF n <= LOG_LIMIT THEN n ELSE LOG_LIMIT)
             /\ \A k \in 1..Len(log_file) :
                    log_file[k].timestamp = n - Len(log_file) + k

\* 102 summaries appended, the two oldest evicted
C6_Witness ==
    /\ clock = LOG_LIMIT + 3
    /\ Len(log_file) = LOG_LIMIT
    /\ log_file[1].timestamp = 3
    /\ log_file[LOG_LIMIT].timestamp = LOG_LIMIT + 2

\* C7: every invocation that returns a summary, in either mode, leaves that
\* summary as the last entry of the Action Log, adds no other entry, and
\* keeps the surviving older entries unchanged and in order.
C7_AppendNewest ==
    [][(CallStep /\ ret'.outcome = "returned") =>
        /\ Len(log_file') >= 1
        /\ log_file'[Len(log_file')] = ret'.summary
        /\ Len(log_file') <= Len(log_file) + 1
        /\ LET kept == Len(log_file') - 1
           IN SubSeq(log_file', 1, kept) =
                  SubSeq(log_file, Len(log_file) - kept + 1, Len(log_file))
    ]_vars

\* a simulated invocation appended its summary to a full log
C7_Witness ==
    /\ dry_run
    /\ clock > LOG_LIMIT + 1
    /\ ret.outcome = "returned"
    /\ ret.summary.total_actions = 2
    /\ Len(log_file) = LOG_LIMIT
    /\ log_file[LOG_LIMIT] = ret.summary
    /\ log_file[LOG_LIMIT - 1].timestamp = clock - 2

\* C8: a price adjustment whose vin or recommended_price is absent or falsy
\* yields 'failed' with error 'Missing VIN or price' and changes no
\* InventoryRecord; the batch goes on: one such item and one fully valid item
\* give exactly two results, one failed and one success.
FullyValid(it, df) ==
    /\ it.mapping
    /\ it.vin \in DOMAIN df
    /\ IsNumber(it.recommended_price) /\ it.recommended_price.n # 0
    /\ IsNumber(df[it.vin].current_price)

C8_MissingVinOrPrice ==
    [][CallStep =>
        LET items == decisions.price_adjustments.items
            results == PriceResults(ret')
        IN /\ ret'.outcome = "returned" =>
                /\ Len(results) = Len(items)
                /\ \A i \in 1..Len(items) :
                      MissingItem(items[i]) =>
                          results[i] = Failed("Missing VIN or price", None,
                                              clock)
           /\ (\A i \in 1..Len(items) : MissingItem(items[i])) =>
                  /\ inventory_df' = inventory_df
                  /\ inventory_csv' = inventory_csv
           /\ \A v \in DOMAIN inventory_df :
                  (\A i \in Reached(items) :
                       items[i].vin = v => MissingItem(items[i]))
                      => inventory_df'[v] = inventory_df[v]
           /\ (/\ ret'.outcome = "returned"
               /\ Len(items) = 2
               /\ \E i, j \in 1..2 :
                     /\ MissingItem(items[i])
                     /\ FullyValid(items[j], inventory_df)) =>
                  /\ CountStatus(results, "failed") = 1
                  /\ CountStatus(results, "success") = 1
    ]_vars

\* a batch of a price-less item for V1 and a valid item for V2
C8_Witness ==
    /\ ret.outcome = "returned"
    /\ Len(Items(decisions.price_adjustments)) = 2
    /\ decisions.price_adjustments.items[1].vin = "V1"
    /\ decisions.price_adjustments.items[1].recommended_price = Num(0)
    /\ decisions.price_adjustments.items[2].vin = "V2"
    /\ PriceResults(ret)[1].error = "Missing VIN or price"
    /\ PriceResults(ret)[2].status = "success"
    /\ inventory_df["V1"] = InitialInventory["V1"]

\* C9: a price adjustment whose vin is not in the Inventory yields 'failed'
\* with error 'Vehicle not found' in both modes and changes no
\* InventoryRecord.
UnknownVehicle(it, df) ==
    it.mapping /\ ~MissingItem(it) /\ it.vin \notin DOMAIN df

C9_VehicleNotFound ==
    [][CallStep =>
        LET items == decisions.price_adjustments.items
            results == PriceResults(ret')
        IN /\ ret'.outcome = "returned" =>
                /\ Len(results) = Len(items)
                /\ \A i \in 1..Len(items) :
                      UnknownVehicle(items[i], inventory_df) =>
                          results[i] = Failed("Vehicle not found",
                                              items[i].vin, clock)
           /\ (/\ items # << >>
               /\ \A i \in 1..Len(items) :
                      UnknownVehicle(items[i], inventory_df)) =>
                  /\ inventory_df' = inventory_df
                  /\ inventory_csv' = inventory_csv
    ]_vars

\* an executed batch whose only price adjustment names an unknown vin
C9_Witness ==
    /\ ~dry_run
    /\ ret.outcome = "returned"
    /\ Len(PriceResults(ret)) = 1
    /\ PriceResults(ret)[1].error = "Vehicle not found"
    /\ PriceResults(ret)[1].ref = GHOST_VIN
    /\ inventory_df = InitialInventory
    /\ inventory_csv = InitialInventory

\* C10: a customer response whose inquiry_id is not in Inquiries yields
\* exactly one result, 'failed' with error 'Inquiry not found', in both
\* modes; the transport is invoked for no such item and no InquiryRecord
\* changes because of it.
UnknownInquiry(it, df) == it.mapping /\ it.inquiry_id \notin DOMAIN df

C10_InquiryNotFound ==
    [][CallStep =>
        LET items == decisions.customer_responses.items
            results == ResponseResults(ret')
            known == {i \in Reached(items) :
                         ~UnknownInquiry(items[i], inquiries_df)}
        IN /\ ret'.outcome = "returned" =>
                /\ Len(results) = Len(items)
                /\ \A i \in 1..Len(items) :
                      UnknownInquiry(items[i], inquiries_df) =>
                          results[i] = Failed("Inquiry not found",
                                              items[i].inquiry_id, clock)
           /\ Len(emails') - Len(emails) <= Cardinality(known)
           /\ known = {} =>
                  /\ emails' = emails
                  /\ inquiries_df' = inquiries_df
                  /\ inquiries_csv' = inquiries_csv
    ]_vars

\* an executed batch whose only customer response names INQ999
C10_Witness ==
    /\ ~dry_run
    /\ ret.outcome = "returned"
    /\ Len(ResponseResults(ret)) = 1
    /\ ResponseResults(ret)[1].error = "Inquiry not found"
    /\ ResponseResults(ret)[1].ref = GHOST_INQUIRY
    /\ emails = << >>
    /\ inquiries_df = InitialInquiries

PostResults(r) == r.summary.actions_by_type.social_media_posts.items
AlertResults(r) == r.summary.actions_by_type.urgent_alerts.items

\* no item of the category makes the invocation raise
NoAbort(kind) == ~HasNonMapping(decisions[kind].items)

\* C11: every customer response whose inquiry_id exists in Inquiries yields a
\* 'success' result, in simulate and in execute mode, whatever its other
\* fields are (an absent response_body included).
C11_ResponseAlwaysSuccess ==
    ret.outcome = "returned" =>
        \A i \in 1..Len(Items(decisions.customer_responses)) :
            LET it == decisions.customer_responses.items[i]
            IN (it.mapping /\ it.inquiry_id \in DOMAIN inquiries_df) =>
                   ResponseResults(ret)[i].status = "success"

\* C12: an InquiryRecord whose status is 'responded' keeps that status over
\* every later invocation, and after an execute-mode invocation every
\* inquiry named by a processed customer response whose email was handed
\* over is 'responded' (also when the same invocation answers it twice).
RespondedTo(items, df) ==
    {items[k].inquiry_id : k \in {j \in Reached(items) :
                                     items[j].inquiry_id \in DOMAIN df}}

C12_RespondedNeverReverts ==
    [][/\ \A i \in DOMAIN inquiries_df :
             inquiries_df[i].status = "responded" =>
                 /\ i \in DOMAIN inquiries_df'
                 /\ inquiries_df'[i].status = "responded"
                 /\ inquiries_csv'[i].status = "responded"
       /\ (CallStep /\ ~dry_run /\ NoAbort("price_adjustments")) =>
             \A i \in RespondedTo(decisions.customer_responses.items,
                                  inquiries_df) \ ret'.send_fails :
                 inquiries_df'[i].status = "responded"
    ]_vars

\* INQ1 answered by the first invocation and answered again by the second
C12_Witness ==
    /\ ~dry_run
    /\ clock = 3
    /\ ret.outcome = "returned"
    /\ inquiries_df["INQ1"].status = "responded"
    /\ inquiries_df["INQ2"].status = "pending"
    /\ Len(emails) = 2

\* C13: every social media post yields a 'success' result in both modes,
\* whatever its fields are (an absent content included).
C13_PostAlwaysSuccess ==
    ret.outcome = "returned" =>
        \A i \in 1..Len(Items(decisions.social_media_posts)) :
            decisions.social_media_posts.items[i].mapping =>
                PostResults(ret)[i].status = "success"

\* C14: every urgent alert yields exactly one result, with status 'logged',
\* in both modes, and alerts change neither the Inventory nor the Inquiries.
C14_AlertAlwaysLogged ==
    (/\ ret.outcome # "none"
     /\ NoAbort("price_adjustments")
     /\ NoAbort("customer_responses")
     /\ NoAbort("social_media_posts")) =>
        /\ ret.outcome = "returned"
        /\ Len(AlertResults(ret)) = Len(Items(decisions.urgent_alerts))
        /\ \A i \in 1..Len(AlertResults(ret)) :
               AlertResults(ret)[i].status = "logged"
        /\ (/\ Items(decisions.price_adjustments) = << >>
            /\ Items(decisions.customer_responses) = << >>) =>
               /\ inventory_df = InitialInventory
               /\ inquiries_df = InitialInquiries

Kinds == {"price_adjustments", "customer_responses", "social_media_posts",
          "urgent_alerts"}

RECURSIVE SumOver(_, _)
SumOver(f, S) ==
    IF S = {} THEN 0
    ELSE LET x == CHOOSE y \in S : TRUE IN f[x] + SumOver(f, S \ {x})

\* the number of results of the summary with a status in statuses
StatusTotal(summary, statuses) ==
    SumOver([k \in Kinds |->
                Cardinality({i \in 1..Len(summary.actions_by_type[k].items) :
                    summary.actions_by_type[k].items[i].status \in statuses})],
            Kinds)

\* C15: execute_all_actions produces exactly one ActionResult per decision
\* item, the i-th result of a category for its i-th item, and total_actions
\* is the number of items of the four category lists.
C15_OneResultPerItem ==
    ret.outcome # "none" =>
        /\ ret.outcome = "returned"
        /\ \A k \in Kinds :
              Len(ret.summary.actions_by_type[k].items)
                  = Len(decisions[k].items)
        /\ \A i \in 1..Len(Items(decisions.price_adjustments)) :
              PriceResults(ret)[i].ref
                  \in {decisions.price_adjustments.items[i].vin, None}
        /\ \A i \in 1..Len(Items(decisions.customer_responses)) :
              ResponseResults(ret)[i].ref
                  = decisions.customer_responses.items[i].inquiry_id
        /\ ret.summary.total_actions
               = SumOver([k \in Kinds |-> Len(decisions[k].items)], Kinds)

\* C16: in every returned summary successful_actions is the number of results
\* with status 'success' or 'logged', failed_actions is total_actions minus
\* successful_actions and is the number of 'failed' results, and
\* 0 <= failed_actions <= total_actions.
C16_SummaryCounts ==
    ret.outcome = "returned" =>
        LET sm == ret.summary
        IN /\ sm.successful_actions = StatusTotal(sm, {"success", "logged"})
           /\ sm.failed_actions = sm.total_actions - sm.successful_actions
           /\ sm.failed_actions = StatusTotal(sm, {"failed"})
           /\ 0 <= sm.failed_actions
           /\ sm.failed_actions <= sm.total_actions

\* a summary of one failed price adjustment and one logged alert
C16_Witness ==
    /\ ret.outcome = "returned"
    /\ ret.summary.total_actions = 2
    /\ ret.summary.successful_actions = 1
    /\ ret.summary.failed_actions = 1
    /\ Len(PriceResults(ret)) = 1
    /\ PriceResults(ret)[1].status = "failed"
    /\ Len(AlertResults(ret)) = 1
    /\ AlertResults(ret)[1].status = "logged"

\* the current_price the i-th price adjustment finds for its vin: the price
\* an earlier accepted item of the same batch wrote (execute mode), else the
\* price of the frame handed to the invocation
OldBefore(items, i, df, dry) ==
    LET T == {k \in Targets(items, items[i].vin) : k < i}
    IN IF dry \/ T = {} THEN df[items[i].vin].current_price
       ELSE items[SetMax(T)].recommended_price

\* C17: a successful price adjustment from old price o to recommended price
\* n reports old_price = o, new_price = n, adjustment_amount = n - o and
\* adjustment_percent = (n - o) / o * 100; for o = 20000 and n = 18000 these
\* are -2000 and -10, and in execute mode the InventoryRecord then shows
\* 18000 (until a later adjustment of the same batch reprices that vin).
C17_PriceArithmetic ==
    [][(CallStep /\ ret'.outcome = "returned") =>
        LET items == decisions.price_adjustments.items
            results == PriceResults(ret')
        IN \A i \in 1..Len(results) :
              results[i].status = "success" =>
                LET r == results[i]
                    o == OldBefore(items, i, inventory_df, dry_run)
                    n == items[i].recommended_price
                IN /\ IsNumber(o) /\ IsNumber(n)
                   /\ r.old_price = o
                   /\ r.new_price = n
                   /\ r.adjustment_amount = Num(n.n - o.n)
                   /\ o.n # 0
                   /\ r.adjustment_percent
                          = Fraction((n.n - o.n) * 100, o.n)
                   /\ (o = Num(20000) /\ n = Num(18000)) =>
                          /\ r.adjustment_amount = Num(0 - 2000)
                          /\ r.adjustment_percent.num
                                 = (0 - 10) * r.adjustment_percent.den
                          /\ (/\ ~dry_run
                              /\ i = SetMax(Targets(items, items[i].vin))) =>
                                 inventory_df'[items[i].vin].current_price
                                     = Num(18000)
    ]_vars

\* V1 repriced from P_V1 to P_LOW in execute mode
C17_Witness ==
    /\ ~dry_run
    /\ clock = 2
    /\ ret.outcome = "returned"
    /\ Len(PriceResults(ret)) = 1
    /\ PriceResults(ret)[1].status = "success"
    /\ PriceResults(ret)[1].old_price = Num(P_V1)
    /\ PriceResults(ret)[1].new_price = Num(P_LOW)
    /\ PriceResults(ret)[1].adjustment_amount = Num(P_LOW - P_V1)
    /\ PriceResults(ret)[1].adjustment_percent
           = Fraction((P_LOW - P_V1) * 100, P_V1)
    /\ inventory_df["V1"].current_price = Num(P_LOW)

\* C18: starting from an Inventory whose prices are all positive, no
\* sequence of invocations sets an InventoryRecord's current_price to zero or
\* to a negative value.
C18_PricesStayPositive ==
    \A v \in DOMAIN inventory_df :
        ~(IsNumber(inventory_df[v].current_price)
          /\ inventory_df[v].current_price.n <= 0)

\* C20: _validate_decisions never raises because of a malformed item, and
\* a category whose key is absent from the decision set contributes no
\* items to the result of a call that completes normally.
C20_ValidatorNeverRaises ==
    validate_outcome # "none" =>
        /\ validate_outcome = "returned"
        /\ \A k \in {"price_adjustments", "customer_responses"} :
              ~response[k].present => decisions[k] = Absent

\* C19: whenever the reasoning service returns no response or a response
\* that cannot be parsed as JSON, agent_decision_loop returns a decision set
\* to its caller and does not raise.
C19_FallbackOnBadReply ==
    (agent_outcome # "none" /\ llm_reply \in {"none", "garbage"}) =>
        agent_outcome = "returned"

\* a step in which a run_agent_cycle call ends
CycleEnds == drv_pc = "cycle" /\ drv_pc' # "cycle"

\* C21: no exception raised inside a cycle (loading the records, the
\* reasoning service, the validator, the executor) leaves run_agent_cycle:
\* the cycle ends, is_running keeps its value and the thread goes on to
\* register the job (after the immediate cycle) or stays in the polling
\* loop (after a scheduled cycle: run_pending runs its next due job or
\* returns to the sleep of line 109).
C21_CycleNeverRaises ==
    [][CycleEnds =>
          /\ cycle'.outcome \in {"completed", "no_decisions", "caught"}
          /\ is_running' = is_running
          /\ IF cycle.kind = "immediate" THEN drv_pc' = "schedule"
             ELSE drv_pc' \in {"sleep", "pending"}]_vars

\* a scheduled cycle met an exception of the decision loop or the executor
\* after an immediate cycle that was not counted, and the loop goes on
C21_Witness ==
    /\ cycle.kind = "scheduled"
    /\ cycle.outcome = "caught"
    /\ cycle.exc = "AttributeError"
    /\ run_count = 0
    /\ is_running
    /\ drv_pc = "pending"

\* C22: while the driver is running and stop() is not called, a cycle is
\* started again after every cycle, also after one that ended in an
\* exception: the n-th cycle is followed by cycle n+1, for every n below the
\* number of cycles explored.
C22_CyclesRecur ==
    \A n \in 1..(MaxCycles - 1) :
        (started = n /\ is_running) ~> (started = n + 1 \/ ~is_running)

\* a scheduled cycle is in progress after a cycle that ended in an
\* exception, and stop() was never called
C22_Witness ==
    /\ cycle.kind = "scheduled"
    /\ cycle.outcome = "running"
    /\ cycle.previous = "caught"
    /\ started = MaxCycles
    /\ is_running
    /\ ~stop_called

\* C23: run_count never decreases; run_count and last_run change only at
\* the end of a cycle that completed without a top-level exception, and a
\* cycle that raised leaves both unchanged.
C23_CountOnlyCompleted ==
    [][/\ run_count' >= run_count
       /\ (run_count' # run_count \/ last_run' # last_run) =>
             /\ CycleEnds
             /\ cycle'.outcome = "completed"
             /\ run_count' = run_count + 1
             /\ last_run' = clock
       /\ (CycleEnds /\ cycle'.exc # "none") =>
             (run_count' = run_count /\ last_run' = last_run)]_vars

\* a cycle that raised came after a counted one and left its count and its
\* timestamp in place
C23_Witness ==
    /\ cycle.outcome = "caught"
    /\ cycle.previous = "completed"
    /\ run_count = 1
    /\ last_run = 1
    /\ clock = 3

\* C24: start_autonomous_mode sets the driver to running, then runs exactly
\* one cycle to completion before the recurring job is registered, and only
\* afterwards enters the polling loop: no scheduled cycle starts before the
\* immediate one has finished.
C24_ImmediateCycleFirst ==
    [][/\ (drv_pc = "idle" /\ drv_pc' # "idle") =>
             (is_running' /\ drv_pc' = "immediate" /\ started' = 0)
       /\ (~scheduled /\ scheduled') =>
             /\ started = 1
             /\ active = 0
             /\ cycle.kind = "immediate"
             /\ cycle.outcome \in {"completed", "no_decisions", "caught"}
       /\ drv_pc' \in {"test", "pending", "sleep"} => scheduled'
       /\ cycle'.kind = "scheduled" => (scheduled /\ started' >= 2)]_vars

\* the first scheduled cycle is in progress, the second cycle of the driver
C24_Witness ==
    /\ cycle.kind = "scheduled"
    /\ cycle.outcome = "running"
    /\ started = 2
    /\ scheduled

\* C25: after stop() has been called on a running driver whose timer loop
\* polls, the next scheduled cycle never fires; a cycle already in flight
\* completes.
C25_NoCycleAfterStop ==
    [][stop_called =>
          /\ (started' # started => cycle'.kind # "scheduled")
          /\ (drv_pc = "cycle" => drv_pc' \in {"cycle", "schedule", "sleep"})
      ]_vars

\* C26: within one driver a cycle never begins while another cycle of that
\* driver is still in progress: each cycle runs to completion before the
\* next one starts.
C26_OneCycleAtATime ==
    [][started' # started =>
          /\ active = 0
          /\ active' = 1
          /\ cycle.outcome # "running"]_vars

\* the third cycle of a driver is in progress, alone, after two that ended
C26_Witness ==
    /\ started = 3
    /\ active = 1
    /\ cycle.outcome = "running"
    /\ cycle.previous \in {"completed", "no_decisions", "caught"}

\* C29: in the autonomous driver in execute mode, the files the executor
\* rewrites are the ones the next cycle reloads: the price and the inquiry
\* status an earlier cycle left in the executor's files are what a cycle
\* observes after its reload.
C29_ReloadSeesWrites ==
    [][(CycleEnds /\ ~dry_run /\ cycle'.exc # "OSError") =>
          /\ \A v \in VINS :
                cycle'.inventory[v].current_price
                    = inventory_csv[v].current_price
          /\ \A i \in INQUIRY_IDS :
                cycle'.inquiries[i].status = inquiries_csv[i].status]_vars

\* both concurrent invocations returned a summary and saved it
BothSaved ==
    \A t \in THREADS : invocations[t].pc = "done" /\ ~invocations[t].raised

\* each invocation read the (empty) log before the other one wrote it
BothReadFirst == \A t \in THREADS : invocations[t].logs = << >>

\* C27: the Action Log append is a read-modify-write of the whole file that
\* is not atomic: when two invocations on the same log file both read the
\* log before either writes it, both complete and the log holds the summary
\* of one of them only.
C27_LostLogEntry ==
    (BothSaved /\ BothReadFirst) =>
        /\ Len(log_file) = 1
        /\ \E t \in THREADS : log_file = <<invocations[t].summary>>

\* two manual triggers completed with different summaries, the log started
\* empty and gained one entry
C27_Witness ==
    /\ BothSaved
    /\ BothReadFirst
    /\ \A t \in THREADS : invocations[t].caller = "manual"
    /\ invocations[1].summary # invocations[2].summary
    /\ log_file = <<invocations[1].summary>>

\* invocation t ran in execute mode on a snapshot of the initial store and
\* its one adjustment, of vehicle v, succeeded
Adjusted(t, v) ==
    /\ invocations[t].pc \in {"executed", "read", "done"}
    /\ ~invocations[t].dry_run
    /\ invocations[t].snapshot = InitialInventory
    /\ invocations[t].decisions.price_adjustments.present
    /\ invocations[t].decisions.price_adjustments.items[1].vin = v
    /\ invocations[t].inventory_df[v].current_price = Num(P_LOW)

\* C28: the Record Store update is not safe under concurrent writers: when
\* two execute-mode cycles each load their own snapshot and adjust
\* different vehicles, the file holds the frame of the later writer, in
\* which the price written by the earlier one is back at its old value.
C28_LostPriceUpdate ==
    \A a, b \in THREADS :
        (Adjusted(a, "V1") /\ Adjusted(b, "V2")) =>
            /\ inventory_csv \in {invocations[a].inventory_df,
                                  invocations[b].inventory_df}
            /\ \/ inventory_csv["V1"].current_price = Num(P_V1)
               \/ inventory_csv["V2"].current_price = Num(P_V2)

\* the adjustment of V1 was written first and is gone from the file
C28_Witness ==
    /\ Adjusted(1, "V1")
    /\ Adjusted(2, "V2")
    /\ \A t \in THREADS : invocations[t].caller = "cycle"
    /\ inventory_csv["V1"].current_price = Num(P_V1)
    /\ inventory_csv["V2"].current_price = Num(P_LOW)

\* two results report the same outcome of one item
SameReport(r, q) ==
    /\ r.status = q.status
    /\ r.old_price = q.old_price
    /\ r.new_price = q.new_price
    /\ r.adjustment_amount = q.adjustment_amount

\* two invocations report the same outcome for every item
SameReports(sim, exe) ==
    /\ sim.raised = exe.raised
    /\ \A k \in Kinds :
          LET a == sim.summary.actions_by_type[k].items
              b == exe.summary.actions_by_type[k].items
          IN /\ Len(a) = Len(b)
             /\ \A i \in 1..Len(a) : i <= Len(b) => SameReport(a[i], b[i])

\* C30: for any decision set and Record Store, simulate mode reports the
\* same result per item as execute mode would (status, old_price,
\* new_price, adjustment_amount), also for a decision set that targets one
\* vehicle twice and for a customer response with missing fields.
C30_SimulateMatchesExecute ==
    pc = "decided" =>
        SameReports(
            execute_all_actions(decisions,
                Env(TRUE, clock, inventory_df, inventory_csv, inquiries_df,
                    inquiries_csv, emails, social_posts)),
            execute_all_actions(decisions,
                Env(FALSE, clock, inventory_df, inventory_csv, inquiries_df,
                    inquiries_csv, emails, social_posts)))

\* the customer-response items whose inquiry exists in the frame
WithInquiry(items, df) ==
    {i \in 1..Len(items) : items[i].inquiry_id \in DOMAIN df}

\* C31: in execute mode the email transport is invoked exactly once for
\* each customer-response item whose inquiry exists and the publishing
\* collaborator exactly once for each social-media-post item; in simulate
\* mode neither is ever invoked.
C31_TransportOncePerItem ==
    [][CallStep =>
          /\ dry_run => (emails' = emails /\ social_posts' = social_posts)
          /\ ~dry_run =>
                /\ Len(emails') - Len(emails) =
                      Cardinality(WithInquiry(
                          decisions.customer_responses.items, inquiries_df))
                /\ Len(social_posts') - Len(social_posts) =
                      Len(decisions.social_media_posts.items)]_vars

\* some result of the list reports an executed success for this reference
ExecutedFor(results, ref) ==
    \E i \in 1..Len(results) :
        /\ results[i].ref = ref
        /\ results[i].status = "success"
        /\ results[i].execution_type = "EXECUTED"

\* C32: every result with status 'success' for a price adjustment, a
\* customer response or a social media post is tagged 'SIMULATED' exactly
\* when the executor is in dry-run mode and 'EXECUTED' otherwise, and a
\* Record Store mutation happens only for results tagged 'EXECUTED'.
C32_ExecutionTypeTagsMutation ==
    [][(CallStep /\ ret'.outcome = "returned") =>
          /\ \A k \in {"price_adjustments", "customer_responses",
                       "social_media_posts"} :
                LET results == ret'.summary.actions_by_type[k].items
                IN \A i \in 1..Len(results) :
                      results[i].status = "success" =>
                          results[i].execution_type =
                              IF dry_run THEN "SIMULATED" ELSE "EXECUTED"
          /\ \A v \in VINS :
                inventory_df'[v] # inventory_df[v] =>
                    ExecutedFor(PriceResults(ret'), v)
          /\ \A q \in INQUIRY_IDS :
                inquiries_df'[q] # inquiries_df[q] =>
                    ExecutedFor(ResponseResults(ret'), q)]_vars

\* C34: whenever a price-adjustment item ends with a 'failed' result, for
\* any reason, the Inventory is left as it was before that item, in execute
\* mode as in simulate mode: a vehicle none of whose adjustments succeeded
\* keeps its row, in the frame and in the file.
C34_FailedLeavesInventory ==
    [][(CallStep /\ ret'.outcome = "returned") =>
          \A v \in VINS :
              (\A i \in 1..Len(PriceResults(ret')) :
                   PriceResults(ret')[i].ref = v =>
                       PriceResults(ret')[i].status = "failed") =>
                  /\ inventory_df'[v] = inventory_df[v]
                  /\ inventory_csv'[v] = inventory_csv[v]]_vars

\* C33: if the email transport raises while an execute-mode customer
\* response is processed, that item yields a 'failed' result carrying the
\* error text, the inquiry's status is left unchanged, and the remaining
\* items are processed.
C33_TransportFailureIsPerItem ==
    [][(CallStep /\ ~dry_run) =>
          LET items == decisions.customer_responses.items
              results == ResponseResults(ret')
              fails == ret'.send_fails
          IN /\ \A q \in fails \cap DOMAIN inquiries_df :
                   /\ inquiries_df'[q].status = inquiries_df[q].status
                   /\ inquiries_csv'[q].status = inquiries_csv[q].status
             /\ ret'.outcome = "returned" =>
                   /\ Len(results) = Len(items)
                   /\ \A i \in 1..Len(items) :
                         /\ items[i].inquiry_id \in fails =>
                               /\ results[i].status = "failed"
                               /\ results[i].error = "OSError"
                               /\ results[i].ref = items[i].inquiry_id
                         /\ items[i].inquiry_id
                                \in (DOMAIN inquiries_df) \ fails =>
                               results[i].status = "success"]_vars

\* the transport raised for the first of two responses: the first failed and
\* its inquiry is still new, the second was sent and marked
C33_Witness ==
    /\ ~dry_run
    /\ ret.outcome = "returned"
    /\ ret.send_fails = {"INQ1"}
    /\ Len(ResponseResults(ret)) = 2
    /\ ResponseResults(ret)[1].ref = "INQ1"
    /\ ResponseResults(ret)[1].error = "OSError"
    /\ ResponseResults(ret)[2].ref = "INQ2"
    /\ ResponseResults(ret)[2].status = "success"
    /\ inquiries_df["INQ1"].status = "new"
    /\ inquiries_df["INQ2"].status = "responded"

\* C35: in every cycle in which the reasoning-service output was parsed and
\* validated, the executor receives only identifiers present in the snapshot
\* it is run against, so no result of that cycle has error 'Vehicle not
\* found' or 'Inquiry not found'.
C35_ValidatedCycleFindsEveryRecord ==
    /\ (agent_outcome = "returned" /\ llm_reply = "json") =>
          /\ \A i \in 1..Len(decisions.price_adjustments.items) :
                decisions.price_adjustments.items[i].vin \in valid_vins
          /\ \A i \in 1..Len(decisions.customer_responses.items) :
                decisions.customer_responses.items[i].inquiry_id
                    \in valid_inquiry_ids
    /\ ret.outcome = "returned" =>
          /\ \A i \in 1..Len(PriceResults(ret)) :
                PriceResults(ret)[i].error # "Vehicle not found"
          /\ \A i \in 1..Len(ResponseResults(ret)) :
                ResponseResults(ret)[i].error # "Inquiry not found"

\* the reply named a vehicle that is not in the snapshot next to one that
\* is; the executor ran on the validated set and adjusted the known one
C35_Witness ==
    /\ llm_reply = "json"
    /\ agent_outcome = "returned"
    /\ \E i \in 1..Len(response.price_adjustments.items) :
          /\ response.price_adjustments.items[i].mapping
          /\ response.price_adjustments.items[i].vin = GHOST_VIN
    /\ ret.outcome = "returned"
    /\ Len(PriceResults(ret)) = 1
    /\ PriceResults(ret)[1].status = "success"

\* C36: for a driver whose executor is the only writer of the Action Log,
\* run_count equals the number of summaries its cycles have appended: a
\* cycle increments run_count if and only if its execute_all_actions call
\* returned, and a cycle that obtained an empty decision set changes neither
\* run_count nor the log.
C36_RunCountCountsSummaries ==
    /\ [](run_count = Len(log_file))
    /\ [][drv_pc = "cycle" =>
            /\ run_count' \in {run_count, run_count + 1}
            /\ (run_count' = run_count + 1) <=> (cycle'.outcome = "completed")
            /\ (cycle'.outcome = "completed") <=>
                   (log_file' = Append(log_file, ret'.summary))
            /\ cycle'.outcome # "completed" => log_file' = log_file
            /\ cycle'.outcome = "no_decisions" =>
                   /\ run_count' = run_count
                   /\ log_file' = log_file]_vars

\* two cycles were counted and logged, then one obtained no decisions
C36_Witness ==
    /\ run_count = 2
    /\ Len(log_file) = 2
    /\ cycle.outcome = "no_decisions"
    /\ started = 3

\* C39: the dashboard's manual trigger always runs the executor in simulate
\* mode: no step of a manual trigger changes the Inventory or Inquiries
\* tables, sends an email or saves a post, and the only file it writes is
\* the Action Log, to which it appends its summary.
C39_ManualTriggerOnlyLogs ==
    [][\A t \in THREADS :
          (invocations'[t] # invocations[t]
           /\ invocations'[t].caller = "manual") =>
              /\ invocations'[t].dry_run
              /\ inventory_csv' = inventory_csv
              /\ inquiries_csv' = inquiries_csv
              /\ emails' = emails
              /\ social_posts' = social_posts
              /\ log_file' # log_file =>
                    log_file' = save_action_log(invocations[t].logs,
                                                invocations[t].summary)]_vars

\* two manual triggers, one proposing a price for each vehicle, have both
\* finished: the tables are as they were and the log holds a summary
C39_Witness ==
    /\ \A t \in THREADS :
          /\ invocations[t].pc = "done"
          /\ invocations[t].caller = "manual"
          /\ ~invocations[t].raised
          /\ invocations[t].decisions.price_adjustments.present
    /\ invocations[1].decisions # invocations[2].decisions
    /\ inventory_csv = InitialInventory
    /\ inquiries_csv = InitialInquiries
    /\ Len(log_file) = 2

\* C38: for every limit >= 0 and every Action Log content,
\* get_action_history(limit) returns at most limit entries, namely the
\* min(limit, log length) most recently appended summaries in append order,
\* and the empty list when the log does not exist.
C38_HistoryIsLastLimit ==
    [][history' # history =>
          LET n == Len(log_file)
              k == IF history'.limit < n THEN history'.limit ELSE n
          IN /\ Len(history'.entries) <= history'.limit
             /\ history'.entries = SubSeq(log_file, n - k + 1, n)]_vars

\* C37: over any sequence of start_autonomous_mode and stop calls on a
\* driver, at most one recurring cycle job is registered with the timer at
\* any time, so one call of run_pending fires at most one cycle (stop
\* followed by a new start does not leave an earlier job active).
C37_AtMostOneJob ==
    /\ [](Len(jobs) <= 1)
    /\ [][(drv_pc = "cycle" /\ cycle.kind = "scheduled") =>
             drv_pc' # "pending"]_vars

====
